---------------------------- MODULE Spec2Model ----------------------------
(***************************************************************************)
(* Model of flow_log_parser.py: the pipeline main() runs                   *)
(*   load_lookup_table -> load_dstport_protocol_flow_logs ->               *)
(*   map_port_proto_tag -> get_port_protocol_counts -> write_output_file   *)
(* inside one try block.                                                   *)
(*                                                                         *)
(* A Python str is a sequence of one-character strings, so that split(),   *)
(* int(), str() and lower() are computed character by character.  A Python *)
(* dict is a sequence of <<key, value>> pairs in insertion order, with at  *)
(* most one pair per key.                                                  *)
(***************************************************************************)
EXTENDS Integers, Sequences, FiniteSets

VARIABLES
    lookup_file,       \* the lookup source: whether it can be read, its csv.DictReader rows
    flow_file,         \* the flow-log source: whether it can be read, its lines
    out_ok,            \* whether the output file can be opened for writing
    pc,                \* position of main() in its try block
    lookup_dict,       \* main's lookup_dict
    flow_logs,         \* main's flow_logs
    tag_mapping,       \* main's tag_mapping
    port_proto_count,  \* main's port_proto_count
    output,            \* rows written to the output file, NotWritten before
    reported,          \* the message prefix printed by main's except clauses
    done               \* the calls of the try block that returned, in order

vars == <<lookup_file, flow_file, out_ok, pc, lookup_dict, flow_logs,
          tag_mapping, port_proto_count, output, reported, done>>

(***************************************************************************)
(* Bounds of the model.                                                    *)
(***************************************************************************)
MaxRows == 2    \* rows of a lookup source
MaxLines == 3   \* lines of a flow-log source

(***************************************************************************)
(* Values that are not strings.                                            *)
(***************************************************************************)
None == <<"<None>">>   \* csv.DictReader's restval for a missing column
NotWritten == <<>>     \* the output file was never opened: it holds no row
Unset == <<>>          \* a local of main() not yet assigned
\* a source is [readable, content]: open() or reading fails on an unreadable one
Unreadable == [readable |-> FALSE, content |-> <<>>]
File(content) == [readable |-> TRUE, content |-> content]

(***************************************************************************)
(* String literals used by the code and by the inputs.                     *)
(***************************************************************************)
untagged == <<"u","n","t","a","g","g","e","d">>
UnknownPrefix ==
    <<"U","n","k","n","o","w","n"," ","P","r","o","t","o","c","o","l"," ","(">>
s_tcp == <<"t","c","p">>
s_TCP == <<"T","C","P">>
s_udp == <<"u","d","p">>
s_UDP == <<"U","D","P">>
s_icmp == <<"i","c","m","p">>
s_ICMP == <<"I","C","M","P">>

Digits == <<"0","1","2","3","4","5","6","7","8","9">>
IsDigit(c) == \E i \in 1..10 : Digits[i] = c
DigitVal(c) == (CHOOSE i \in 1..10 : Digits[i] = c) - 1

\* str.isspace() on the characters a flow-log line of the model can hold
IsSpace(c) == c \in {" ", "\t", "\n"}

\* str.lower() on one character
Uppers == <<"A","B","C","D","E","F","G","H","I","J","K","L","M",
            "N","O","P","Q","R","S","T","U","V","W","X","Y","Z">>
Lowers == <<"a","b","c","d","e","f","g","h","i","j","k","l","m",
            "n","o","p","q","r","s","t","u","v","w","x","y","z">>
LowerChar(c) ==
    IF \E i \in 1..26 : Uppers[i] = c
    THEN Lowers[CHOOSE i \in 1..26 : Uppers[i] = c]
    ELSE c
lower(s) == [i \in 1..Len(s) |-> LowerChar(s[i])]

\* str(n) for an integer n
RECURSIVE StrNat(_)
StrNat(n) == IF n < 10 THEN <<Digits[n + 1]>>
             ELSE StrNat(n \div 10) \o <<Digits[(n % 10) + 1]>>
str(n) == IF n < 0 THEN <<"-">> \o StrNat(-n) ELSE StrNat(n)

\* int(s) for a str s: an optional sign followed by at least one digit;
\* anything else raises ValueError
RECURSIVE NatOf(_, _)
NatOf(ds, acc) == IF ds = <<>> THEN acc
                  ELSE NatOf(Tail(ds), 10 * acc + DigitVal(Head(ds)))
int(s) ==
    LET signed == s # <<>> /\ Head(s) \in {"+", "-"}
        ds == IF signed THEN Tail(s) ELSE s
    IN  IF ds = <<>> \/ \E i \in 1..Len(ds) : ~IsDigit(ds[i])
        THEN [exc |-> "ValueError", val |-> 0]
        ELSE [exc |-> "none",
              val |-> IF signed /\ Head(s) = "-" THEN -NatOf(ds, 0) ELSE NatOf(ds, 0)]

(***************************************************************************)
(* dict operations                                                         *)
(***************************************************************************)
DictHas(d, k) == \E i \in 1..Len(d) : d[i][1] = k
DictGet(d, k) == d[CHOOSE i \in 1..Len(d) : d[i][1] = k][2]
\* d[k] = v : replaces the value in place, or appends a new pair
DictSet(d, k, v) ==
    IF DictHas(d, k)
    THEN [i \in 1..Len(d) |-> IF d[i][1] = k THEN <<k, v>> ELSE d[i]]
    ELSE Append(d, <<k, v>>)
DictKeys(d) == {d[i][1] : i \in 1..Len(d)}
\* d.get(k, 0)
CountOf(d, k) == IF DictHas(d, k) THEN DictGet(d, k) ELSE 0


(***************************************************************************)
(* The platform's protocol registry, as socket.getprotobyname and the      *)
(* socket module's IPPROTO_* constants expose it (names and their aliases  *)
(* for ICMP, TCP and UDP).                                                 *)
(***************************************************************************)
getprotobyname(name) ==
    IF name = None THEN [exc |-> "TypeError", val |-> 0]
    ELSE IF name \in {s_icmp, s_ICMP} THEN [exc |-> "none", val |-> 1]
    ELSE IF name \in {s_tcp, s_TCP} THEN [exc |-> "none", val |-> 6]
    ELSE IF name \in {s_udp, s_UDP} THEN [exc |-> "none", val |-> 17]
    ELSE [exc |-> "OSError", val |-> 0]

\* the dict get_protocol_name builds from vars(socket): number -> name
IPPROTO == <<<<1, s_ICMP>>, <<6, s_TCP>>, <<17, s_UDP>>>>

get_protocol_number(protocol_name) ==
    LET r == getprotobyname(protocol_name)
    IN  IF r.exc = "none" THEN [exc |-> "none", val |-> str(r.val)]
        ELSE IF r.exc = "OSError" THEN [exc |-> "ValueError", val |-> <<>>]
        ELSE [exc |-> r.exc, val |-> <<>>]

\* get_protocol_name with a placeholder that leaves the number out
get_protocol_name_no_number(protocol_num) ==
    IF DictHas(IPPROTO, protocol_num) THEN DictGet(IPPROTO, protocol_num)
    ELSE UnknownPrefix \o <<")">>

get_protocol_name(protocol_num) ==
    IF DictHas(IPPROTO, protocol_num) THEN DictGet(IPPROTO, protocol_num)
    ELSE UnknownPrefix \o str(protocol_num) \o <<")">>

(***************************************************************************)
(* load_lookup_table: the loop over the rows, then the function.           *)
(* A row is [dstport, protocol, tag]; a column the row lacks is None.      *)
(***************************************************************************)
\* lookup_row that keeps the first tag of a key (first-write-wins)
lookup_row_keeps_first(lookup, row) ==
    LET num == get_protocol_number(row.protocol)
    IN  IF num.exc = "ValueError" THEN [exc |-> "none", val |-> lookup]
        ELSE IF num.exc # "none" THEN [exc |-> num.exc, val |-> lookup]
        ELSE IF row.tag = None THEN [exc |-> "AttributeError", val |-> lookup]
        ELSE IF DictHas(lookup, <<row.dstport, num.val>>)
             THEN [exc |-> "none", val |-> lookup]
        ELSE [exc |-> "none",
              val |-> DictSet(lookup, <<row.dstport, num.val>>, lower(row.tag))]

lookup_row(lookup, row) ==
    LET num == get_protocol_number(row.protocol)
    IN  IF num.exc = "ValueError" THEN [exc |-> "none", val |-> lookup]
        ELSE IF num.exc # "none" THEN [exc |-> num.exc, val |-> lookup]
        ELSE IF row.tag = None THEN [exc |-> "AttributeError", val |-> lookup]
        ELSE [exc |-> "none",
              val |-> DictSet(lookup, <<row.dstport, num.val>>, lower(row.tag))]

RECURSIVE lookup_rows(_, _)
lookup_rows(lookup, rows) ==
    IF rows = <<>> THEN [exc |-> "none", val |-> lookup]
    ELSE LET r == lookup_row(lookup, Head(rows))
         IN  IF r.exc # "none" THEN r ELSE lookup_rows(r.val, Tail(rows))

load_lookup_table(file) ==
    IF ~file.readable THEN [exc |-> "IOError", val |-> <<>>]
    ELSE LET r == lookup_rows(<<>>, file.content)
         IN  IF r.exc # "none" THEN [exc |-> "IOError", val |-> <<>>] ELSE r

(***************************************************************************)
(* load_dstport_protocol_flow_logs: str.split(), the loop over the lines,  *)
(* then the function.                                                      *)
(***************************************************************************)
RECURSIVE split_from(_, _, _)
\* rest: characters still to read; cur: the field being read; acc: fields read
split_from(rest, cur, acc) ==
    IF rest = <<>> THEN (IF cur = <<>> THEN acc ELSE Append(acc, cur))
    ELSE IF IsSpace(Head(rest))
         THEN split_from(Tail(rest), <<>>, IF cur = <<>> THEN acc ELSE Append(acc, cur))
         ELSE split_from(Tail(rest), Append(cur, Head(rest)), acc)
split(line) == split_from(line, <<>>, <<>>)

\* flow_line that asks for more than 8 fields
flow_line_more_than_8(dstport_proto, line) ==
    LET fields == split(line)
    IN  IF Len(fields) > 8
        THEN Append(dstport_proto, <<fields[7], fields[8]>>)
        ELSE dstport_proto

flow_line(dstport_proto, line) ==
    LET fields == split(line)
    IN  IF Len(fields) >= 8
        THEN Append(dstport_proto, <<fields[7], fields[8]>>)
        ELSE dstport_proto

RECURSIVE flow_lines(_, _)
flow_lines(dstport_proto, lines) ==
    IF lines = <<>> THEN dstport_proto
    ELSE flow_lines(flow_line(dstport_proto, Head(lines)), Tail(lines))

load_dstport_protocol_flow_logs(file) ==
    IF ~file.readable THEN [exc |-> "IOError", val |-> <<>>]
    ELSE [exc |-> "none", val |-> flow_lines(<<>>, file.content)]

(***************************************************************************)
(* map_port_proto_tag                                                      *)
(***************************************************************************)
\* tag_step that assigns 1 where the code adds 1
tag_step_assigns_one(lookup, tag_count_dict, key) ==
    LET tag == IF DictHas(lookup, key) THEN DictGet(lookup, key) ELSE untagged
    IN  DictSet(tag_count_dict, tag, 1)

\* tag_step that counts a record only when the table has its key
tag_step_skips_unmatched(lookup, tag_count_dict, key) ==
    IF ~DictHas(lookup, key) THEN tag_count_dict
    ELSE LET tag == DictGet(lookup, key)
         IN  DictSet(tag_count_dict, tag, CountOf(tag_count_dict, tag) + 1)

tag_step(lookup, tag_count_dict, key) ==
    LET tag == IF DictHas(lookup, key) THEN DictGet(lookup, key) ELSE untagged
        d0 == IF ~DictHas(tag_count_dict, tag)
              THEN DictSet(tag_count_dict, tag, 0) ELSE tag_count_dict
    IN  DictSet(d0, tag, DictGet(d0, tag) + 1)

RECURSIVE tag_loop(_, _, _)
tag_loop(lookup, tag_count_dict, dstport_proto) ==
    IF dstport_proto = <<>> THEN tag_count_dict
    ELSE tag_loop(lookup, tag_step(lookup, tag_count_dict, Head(dstport_proto)),
                  Tail(dstport_proto))

\* map_port_proto_tag without the else branch: a record whose key the table
\* lacks keeps the tag of the record before it ("untagged" at the start)
RECURSIVE stale_tag_loop(_, _, _, _)
stale_tag_loop(lookup, tag_count_dict, dstport_proto, tag) ==
    IF dstport_proto = <<>> THEN tag_count_dict
    ELSE LET key == Head(dstport_proto)
             t == IF DictHas(lookup, key) THEN DictGet(lookup, key) ELSE tag
             d0 == IF ~DictHas(tag_count_dict, t)
                   THEN DictSet(tag_count_dict, t, 0) ELSE tag_count_dict
         IN  stale_tag_loop(lookup, DictSet(d0, t, DictGet(d0, t) + 1),
                            Tail(dstport_proto), t)
map_port_proto_tag_stale_tag(lookup, dstport_proto) ==
    stale_tag_loop(lookup, <<>>, dstport_proto, untagged)

map_port_proto_tag(lookup, dstport_proto) == tag_loop(lookup, <<>>, dstport_proto)

(***************************************************************************)
(* get_port_protocol_counts                                                *)
(***************************************************************************)
\* count_step that adds 1 only to a key already present
count_step_first_not_counted(port_proto_dict, rec) ==
    LET n == int(rec[2])
    IN  IF n.exc # "none" THEN [exc |-> n.exc, val |-> port_proto_dict]
        ELSE LET key == <<rec[1], get_protocol_name(n.val)>>
             IN  [exc |-> "none",
                  val |-> IF ~DictHas(port_proto_dict, key)
                          THEN DictSet(port_proto_dict, key, 0)
                          ELSE DictSet(port_proto_dict, key, DictGet(port_proto_dict, key) + 1)]

count_step(port_proto_dict, rec) ==
    LET n == int(rec[2])
    IN  IF n.exc # "none" THEN [exc |-> n.exc, val |-> port_proto_dict]
        ELSE LET key == <<rec[1], get_protocol_name(n.val)>>
                 d0 == IF ~DictHas(port_proto_dict, key)
                       THEN DictSet(port_proto_dict, key, 0) ELSE port_proto_dict
             IN  [exc |-> "none", val |-> DictSet(d0, key, DictGet(d0, key) + 1)]

RECURSIVE count_loop(_, _)
count_loop(port_proto_dict, port_protocol) ==
    IF port_protocol = <<>> THEN [exc |-> "none", val |-> port_proto_dict]
    ELSE LET r == count_step(port_proto_dict, Head(port_protocol))
         IN  IF r.exc # "none" THEN r ELSE count_loop(r.val, Tail(port_protocol))

get_port_protocol_counts(port_protocol) == count_loop(<<>>, port_protocol)

(***************************************************************************)
(* write_output_file: the rows handed to csv.writer                        *)
(***************************************************************************)
s_Tag == <<"T","a","g">>
s_Count == <<"C","o","u","n","t">>
s_Port == <<"P","o","r","t">>
s_Protocol == <<"P","r","o","t","o","c","o","l">>

output_rows(tag_dict, port_proto_dict) ==
    <<<<s_Tag, s_Count>>>>
    \o [i \in 1..Len(tag_dict) |-> <<tag_dict[i][1], tag_dict[i][2]>>]
    \o <<<<>>>>
    \o <<<<s_Port, s_Protocol, s_Count>>>>
    \o [i \in 1..Len(port_proto_dict) |->
            <<port_proto_dict[i][1][1], port_proto_dict[i][1][2], port_proto_dict[i][2]>>]

write_output_file(can_open, tag_dict, port_proto_dict) ==
    IF can_open THEN [exc |-> "none", val |-> output_rows(tag_dict, port_proto_dict)]
    ELSE [exc |-> "IOError", val |-> NotWritten]

(***************************************************************************)
(* main: the except clauses, then one action per statement of the try      *)
(* block.  An exception leaves the try block: no later statement runs.     *)
(***************************************************************************)
except_clause(exc) ==
    IF exc = "FileNotFoundError" THEN "File error"
    ELSE IF exc = "ValueError" THEN "Value error"
    ELSE IF exc = "IOError" THEN "I/O error"
    ELSE "Unexpected error"

LoadLookup ==
    /\ pc = "load_lookup"
    /\ LET r == load_lookup_table(lookup_file)
       IN  IF r.exc = "none"
           THEN /\ lookup_dict' = r.val
                /\ pc' = "load_flow"
                /\ done' = Append(done, "load_lookup_table")
                /\ UNCHANGED reported
           ELSE /\ reported' = except_clause(r.exc)
                /\ pc' = "exit"
                /\ UNCHANGED <<lookup_dict, done>>
    /\ UNCHANGED <<lookup_file, flow_file, out_ok, flow_logs, tag_mapping,
                   port_proto_count, output>>

LoadFlow ==
    /\ pc = "load_flow"
    /\ LET r == load_dstport_protocol_flow_logs(flow_file)
       IN  IF r.exc = "none"
           THEN /\ flow_logs' = r.val
                /\ pc' = "map_tags"
                /\ done' = Append(done, "load_dstport_protocol_flow_logs")
                /\ UNCHANGED reported
           ELSE /\ reported' = except_clause(r.exc)
                /\ pc' = "exit"
                /\ UNCHANGED <<flow_logs, done>>
    /\ UNCHANGED <<lookup_file, flow_file, out_ok, lookup_dict, tag_mapping,
                   port_proto_count, output>>

MapTags ==
    /\ pc = "map_tags"
    /\ tag_mapping' = map_port_proto_tag(lookup_dict, flow_logs)
    /\ pc' = "count"
    /\ done' = Append(done, "map_port_proto_tag")
    /\ UNCHANGED <<lookup_file, flow_file, out_ok, lookup_dict, flow_logs,
                   port_proto_count, output, reported>>

\* CountPortProtocol with the exception swallowed: main goes on to write
CountPortProtocol_goes_on ==
    /\ pc = "count"
    /\ LET r == get_port_protocol_counts(flow_logs)
       IN  IF r.exc = "none"
           THEN /\ port_proto_count' = r.val
                /\ done' = Append(done, "get_port_protocol_counts")
                /\ UNCHANGED reported
           ELSE /\ reported' = except_clause(r.exc)
                /\ UNCHANGED <<port_proto_count, done>>
    /\ pc' = "write"
    /\ UNCHANGED <<lookup_file, flow_file, out_ok, lookup_dict, flow_logs,
                   tag_mapping, output>>

CountPortProtocol ==
    /\ pc = "count"
    /\ LET r == get_port_protocol_counts(flow_logs)
       IN  IF r.exc = "none"
           THEN /\ port_proto_count' = r.val
                /\ pc' = "write"
                /\ done' = Append(done, "get_port_protocol_counts")
                /\ UNCHANGED reported
           ELSE /\ reported' = except_clause(r.exc)
                /\ pc' = "exit"
                /\ UNCHANGED <<port_proto_count, done>>
    /\ UNCHANGED <<lookup_file, flow_file, out_ok, lookup_dict, flow_logs,
                   tag_mapping, output>>

WriteOutput ==
    /\ pc = "write"
    /\ LET r == write_output_file(out_ok, tag_mapping, port_proto_count)
       IN  IF r.exc = "none"
           THEN /\ output' = r.val
                /\ done' = Append(done, "write_output_file")
                /\ UNCHANGED reported
           ELSE /\ reported' = except_clause(r.exc)
                /\ UNCHANGED <<output, done>>
    /\ pc' = "exit"
    /\ UNCHANGED <<lookup_file, flow_file, out_ok, lookup_dict, flow_logs,
                   tag_mapping, port_proto_count>>

Next == LoadLookup \/ LoadFlow \/ MapTags \/ CountPortProtocol \/ WriteOutput

(***************************************************************************)
(* Inputs.                                                                 *)
(***************************************************************************)
s_80 == <<"8","0">>
s_443 == <<"4","4","3">>
s_bogus == <<"x","y","z">>
s_Web == <<"W","e","b">>
s_ssh == <<"s","s","h">>
s_Untagged == <<"U","n","t","a","g","g","e","d">>
s_x == <<"x">>

Row(d, p, t) == [dstport |-> d, protocol |-> p, tag |-> t]

\* rows of a lookup source: resolvable and unresolvable protocol names, two
\* spellings of one protocol, colliding keys, the tag "Untagged", and rows
\* that lack the tag column or the protocol and tag columns
LookupRows ==
    { Row(s_80, s_tcp, s_Web),  Row(s_80, s_TCP, s_ssh), Row(s_80, s_tcp, s_ssh),
      Row(s_80, s_udp, s_Web),  Row(s_443, s_tcp, s_Web),
      Row(s_443, s_TCP, s_Untagged),
      Row(s_80, s_bogus, s_Web), Row(s_443, s_bogus, s_ssh), Row(s_80, <<>>, s_ssh),
      Row(s_80, None, None), Row(s_443, s_tcp, None), Row(s_80, s_bogus, None) }

RECURSIVE Join(_, _)
Join(fields, sep) ==
    IF fields = <<>> THEN <<>>
    ELSE IF Len(fields) = 1 THEN fields[1]
    ELSE fields[1] \o sep \o Join(Tail(fields), sep)

\* a flow-log line with n fields, the 7th being port and the 8th proto
Fields(n, port, proto) ==
    SubSeq(<<s_x, s_x, s_x, s_x, s_x, s_x, port, proto,
             s_x, s_x, s_x, s_x, s_x, s_x>>, 1, n)
Line(n, port, proto) == Join(Fields(n, port, proto), <<" ">>) \o <<"\n">>

\* lines that differ in their records: known and unknown protocol numbers,
\* two spellings of one number, a negative number, a field that is no number
RecordLines ==
    { Line(14, s_80, <<"6">>), Line(14, s_80, <<"0","6">>), Line(14, s_80, <<"1","7">>),
      Line(14, s_80, <<"9","9">>), Line(14, s_80, <<"9","8">>), Line(14, s_80, <<"-">>),
      Line(14, s_443, <<"6">>), Line(14, s_443, <<"9","9">>), Line(5, s_80, <<"6">>) }

\* lines that differ in their layout: blank, too short, exactly 8 fields, more
\* fields, runs of blanks and tabs, blanks at either end, no final newline
LayoutLines ==
    { <<"\n">>, <<" ", " ", "\n">>,
      Line(1, s_80, <<"6">>), Line(7, s_80, <<"6">>), Line(8, s_80, <<"6">>),
      Line(9, s_443, <<"1","7">>), Line(14, s_443, <<"6">>),
      <<" ", "\t">> \o Join(Fields(8, s_443, <<"6">>), <<" ", " ">>),
      Join(Fields(8, s_80, <<"1","7">>), <<"\t">>) \o <<" ", " ", "\n">>,
      Join(Fields(7, s_80, <<"6">>), <<" ", "\t", " ">>) \o <<" ", "\n">> }

SeqsUpTo(S, n) == UNION {[1..k -> S] : k \in 0..n}

Files(S, n) == {Unreadable} \cup {File(c) : c \in SeqsUpTo(S, n)}

LookupA == File(<<Row(s_80, s_tcp, s_Web), Row(s_443, s_tcp, s_ssh)>>)
LookupB == File(<<Row(s_80, s_tcp, s_Web), Row(s_80, s_udp, s_Web),
                  Row(s_443, s_TCP, s_Untagged)>>)
LookupShort == File(<<Row(s_80, s_tcp, s_Web), Row(s_443, s_tcp, None)>>)

FewLookupFiles == {Unreadable, File(<<>>), LookupA, LookupB, LookupShort}
FewFlowFiles ==
    { Unreadable,
      File(<<Line(14, s_80, <<"6">>), Line(14, s_443, <<"6">>)>>),
      File(<<Line(14, s_80, <<"6">>), Line(14, s_80, <<"-">>)>>),
      File(<<Line(5, s_80, <<"6">>), Line(14, s_443, <<"9","9">>)>>) }

InitWith(lookup_files, flow_files) ==
    /\ lookup_file \in lookup_files
    /\ flow_file \in flow_files
    /\ out_ok \in BOOLEAN
    /\ pc = "load_lookup"
    /\ lookup_dict = Unset
    /\ flow_logs = Unset
    /\ tag_mapping = Unset
    /\ port_proto_count = Unset
    /\ output = NotWritten
    /\ reported = "none"
    /\ done = <<>>

\* every lookup source of up to MaxRows rows, a few flow logs
Init == InitWith(Files(LookupRows, MaxRows), FewFlowFiles)
\* every flow log of up to MaxLines lines that differ in layout
InitFlow == InitWith({Unreadable, LookupA}, Files(LayoutLines, MaxLines))
\* every flow log of up to MaxLines lines that differ in their records
InitAgg == InitWith(FewLookupFiles, Files(RecordLines, MaxLines))

Spec == Init /\ [][Next]_vars
SpecFlow == InitFlow /\ [][Next]_vars
SpecAgg == InitAgg /\ [][Next]_vars
\* a few lookup sources and a few flow logs
InitFew == InitWith(FewLookupFiles, FewFlowFiles)
\* main() is one synchronous call: it runs until it returns
FairSpec == InitFew /\ [][Next]_vars /\ WF_vars(Next)

(***************************************************************************)
(* Vocabulary of the properties.                                           *)
(***************************************************************************)
Has(call) == \E i \in 1..Len(done) : done[i] = call

RECURSIVE SumValues(_)
SumValues(d) == IF d = <<>> THEN 0 ELSE Head(d)[2] + SumValues(Tail(d))

KeyOrder(d) == [i \in 1..Len(d) |-> d[i][1]]
NoDuplicateKeys(d) == \A i, j \in 1..Len(d) : d[i][1] = d[j][1] => i = j

\* the records of a sequence whose key the table maps to tag t / does not map
MappedTo(table, recs, t) ==
    {i \in 1..Len(recs) : DictHas(table, recs[i]) /\ DictGet(table, recs[i]) = t}
Absent(table, recs) == {i \in 1..Len(recs) : ~DictHas(table, recs[i])}
TableTags(table) == {table[i][2] : i \in 1..Len(table)}

Reorderings(n) == {q \in [1..n -> 1..n] : \A i, j \in 1..n : q[i] = q[j] => i = j}
Permuted(recs, q) == [i \in 1..Len(recs) |-> recs[q[i]]]

\* the elements of a sequence in the order of their first occurrence
RECURSIVE FirstSeen(_, _)
FirstSeen(xs, seen) ==
    IF xs = <<>> THEN seen
    ELSE FirstSeen(Tail(xs),
                   IF \E i \in 1..Len(seen) : seen[i] = Head(xs)
                   THEN seen ELSE Append(seen, Head(xs)))
TagOf(table, key) == IF DictHas(table, key) THEN DictGet(table, key) ELSE untagged

(***************************************************************************)
(* C1: the counts map_port_proto_tag returns sum to the number of records, *)
(* whatever the split between matched and unmatched records; no record     *)
(* gives the empty mapping.                                                *)
(***************************************************************************)
C1_TagCountsSumToRecords ==
    Has("map_port_proto_tag") =>
        /\ SumValues(tag_mapping) = Len(flow_logs)
        /\ NoDuplicateKeys(tag_mapping)
        /\ (flow_logs = <<>> => tag_mapping = <<>>)

C1_Witness ==
    /\ Has("map_port_proto_tag")
    /\ Len(flow_logs) = 3
    /\ Cardinality(Absent(lookup_dict, flow_logs)) = 1
    /\ SumValues(tag_mapping) = 3

(***************************************************************************)
(* C5 as stated: the count of every tag is the number of records the table *)
(* maps to it, and the count of "untagged" is exactly the number of        *)
(* records whose key is absent from the table.                             *)
(***************************************************************************)
C5_UntaggedCountsOnlyAbsent ==
    Has("map_port_proto_tag") =>
        /\ \A t \in TableTags(lookup_dict) \ {untagged} :
              CountOf(tag_mapping, t) = Cardinality(MappedTo(lookup_dict, flow_logs, t))
        /\ CountOf(tag_mapping, untagged) = Cardinality(Absent(lookup_dict, flow_logs))

(***************************************************************************)
(* C5 amended: the count of every tag other than "untagged" is the number  *)
(* of records the table maps to it; the count of "untagged" is the number  *)
(* of records whose key is absent plus the number of records the table     *)
(* maps to the tag "untagged"; no other tag is counted.                    *)
(***************************************************************************)
C5_EachRecordCountedUnderItsTag ==
    Has("map_port_proto_tag") =>
        /\ \A t \in TableTags(lookup_dict) \ {untagged} :
              CountOf(tag_mapping, t) = Cardinality(MappedTo(lookup_dict, flow_logs, t))
        /\ CountOf(tag_mapping, untagged) =
              Cardinality(Absent(lookup_dict, flow_logs))
              + Cardinality(MappedTo(lookup_dict, flow_logs, untagged))
        /\ DictKeys(tag_mapping) \subseteq TableTags(lookup_dict) \cup {untagged}

C5_Witness ==
    /\ Has("map_port_proto_tag")
    /\ Cardinality(Absent(lookup_dict, flow_logs)) = 1
    /\ Cardinality(MappedTo(lookup_dict, flow_logs, untagged)) = 1
    /\ Cardinality(MappedTo(lookup_dict, flow_logs, lower(s_Web))) = 1
    /\ CountOf(tag_mapping, untagged) = 2

(***************************************************************************)
(* C8: for every reordering of the records, map_port_proto_tag gives the   *)
(* same tags with the same counts; the tags are in the order in which the  *)
(* records first produce them.                                             *)
(***************************************************************************)
C8_CountsInvariantUnderReordering ==
    Has("map_port_proto_tag") =>
        \A q \in Reorderings(Len(flow_logs)) :
            LET recs == Permuted(flow_logs, q)
                counts == map_port_proto_tag(lookup_dict, recs)
            IN  /\ DictKeys(counts) = DictKeys(tag_mapping)
                /\ \A t \in DictKeys(counts) : DictGet(counts, t) = DictGet(tag_mapping, t)
                /\ KeyOrder(counts) =
                       FirstSeen([i \in 1..Len(recs) |-> TagOf(lookup_dict, recs[i])], <<>>)

C8_Witness ==
    /\ Has("map_port_proto_tag")
    /\ Len(flow_logs) = 3
    /\ Len(tag_mapping) = 2
    /\ \E q \in Reorderings(3) :
          KeyOrder(map_port_proto_tag(lookup_dict, Permuted(flow_logs, q)))
              # KeyOrder(tag_mapping)

(***************************************************************************)
(* C10: in a run that reaches the output stage, the counts of              *)
(* port_proto_count and the counts of tag_mapping both sum to the number   *)
(* of parsed records, and every count in either mapping is at least 1.     *)
(***************************************************************************)
C10_SummariesAccountForSameRecords ==
    Has("get_port_protocol_counts") =>
        /\ SumValues(port_proto_count) = Len(flow_logs)
        /\ SumValues(tag_mapping) = Len(flow_logs)
        /\ \A i \in 1..Len(port_proto_count) : port_proto_count[i][2] >= 1
        /\ \A i \in 1..Len(tag_mapping) : tag_mapping[i][2] >= 1

C10_Witness ==
    /\ pc = "write"
    /\ Len(flow_logs) = 3
    /\ Len(port_proto_count) = 2
    /\ Len(tag_mapping) = 2

(***************************************************************************)
(* C7: get_port_protocol_counts counts each record under                   *)
(* (port, get_protocol_name(int(protocol))), and the records counted under *)
(* one key all have the same port and the same numeric protocol value:     *)
(* records with one port and different numbers, unrecognized numbers       *)
(* included, are in different keys.                                        *)
(***************************************************************************)
NumOf(rec) == int(rec[2]).val
NameKey(rec) == <<rec[1], get_protocol_name(NumOf(rec))>>
CountedUnder(recs, k) == {i \in 1..Len(recs) : NameKey(recs[i]) = k}

C7_KeysSeparateDifferentNumbers ==
    Has("get_port_protocol_counts") =>
        /\ DictKeys(port_proto_count) = {NameKey(flow_logs[i]) : i \in 1..Len(flow_logs)}
        /\ NoDuplicateKeys(port_proto_count)
        /\ \A k \in DictKeys(port_proto_count) :
              /\ DictGet(port_proto_count, k) = Cardinality(CountedUnder(flow_logs, k))
              /\ \A i, j \in CountedUnder(flow_logs, k) :
                    /\ flow_logs[i][1] = flow_logs[j][1]
                    /\ NumOf(flow_logs[i]) = NumOf(flow_logs[j])

\* two unrecognized numbers on one port, counted under two keys
C7_Witness ==
    /\ Has("get_port_protocol_counts")
    /\ \E i, j \in 1..Len(flow_logs) :
          /\ flow_logs[i][1] = flow_logs[j][1]
          /\ NumOf(flow_logs[i]) = 99
          /\ NumOf(flow_logs[j]) = 98
          /\ DictGet(port_proto_count, NameKey(flow_logs[i])) = 2
          /\ DictGet(port_proto_count, NameKey(flow_logs[j])) = 1

(***************************************************************************)
(* C2: load_dstport_protocol_flow_logs returns one record per line that    *)
(* has at least 8 whitespace-delimited fields, the record being            *)
(* (field 7, field 8), in the order of the lines; a line with fewer fields *)
(* gives no record and does not stop the lines after it.                   *)
(* The fields of a line are its maximal runs of non-blank characters.      *)
(***************************************************************************)
FieldStarts(line) ==
    {i \in 1..Len(line) : ~IsSpace(line[i]) /\ (i = 1 \/ IsSpace(line[i - 1]))}
FieldEnds(line) ==
    {i \in 1..Len(line) : ~IsSpace(line[i]) /\ (i = Len(line) \/ IsSpace(line[i + 1]))}
NthOf(S, n) == CHOOSE i \in S : Cardinality({j \in S : j <= i}) = n
FieldAt(line, n) == SubSeq(line, NthOf(FieldStarts(line), n), NthOf(FieldEnds(line), n))
WellFormed(line) == Cardinality(FieldStarts(line)) >= 8

RECURSIVE ExpectedRecords(_)
ExpectedRecords(lines) ==
    IF lines = <<>> THEN <<>>
    ELSE (IF WellFormed(Head(lines))
          THEN <<<<FieldAt(Head(lines), 7), FieldAt(Head(lines), 8)>>>> ELSE <<>>)
         \o ExpectedRecords(Tail(lines))

C2_OneRecordPerWellFormedLine ==
    Has("load_dstport_protocol_flow_logs") =>
        flow_logs = ExpectedRecords(flow_file.content)

\* a short line, a line of exactly 8 fields and a line of more, in that order
C2_Witness ==
    /\ Has("load_dstport_protocol_flow_logs")
    /\ Len(flow_file.content) = 3
    /\ Cardinality(FieldStarts(flow_file.content[1])) = 7
    /\ Cardinality(FieldStarts(flow_file.content[2])) = 8
    /\ Cardinality(FieldStarts(flow_file.content[3])) = 14
    /\ flow_logs = <<<<s_80, <<"6">>>>, <<s_443, <<"6">>>>>>

(***************************************************************************)
(* Rows of a lookup source whose protocol name resolves, and their keys.   *)
(***************************************************************************)
Resolves(row) == get_protocol_number(row.protocol).exc = "none"
RowKey(row) == <<row.dstport, get_protocol_number(row.protocol).val>>
RowsOfKey(rows, k) == {i \in 1..Len(rows) : Resolves(rows[i]) /\ RowKey(rows[i]) = k}
LastOf(S) == CHOOSE i \in S : \A j \in S : j <= i

(***************************************************************************)
(* C3: loading a readable lookup source skips the rows whose protocol name *)
(* fails resolution and does not abort: the table has an entry             *)
(* (dstport, number) -> lowercase tag for every row whose protocol name    *)
(* resolves (the tag being that of the last row of the key), and no other  *)
(* entry.                                                                  *)
(***************************************************************************)
C3_InvalidRowsSkippedLoadNotAborted ==
    (lookup_file.readable /\ pc # "load_lookup") =>
        /\ Has("load_lookup_table")
        /\ \A i \in 1..Len(lookup_file.content) :
              LET row == lookup_file.content[i]
              IN  Resolves(row) =>
                    /\ DictHas(lookup_dict, RowKey(row))
                    /\ DictGet(lookup_dict, RowKey(row)) =
                          lower(lookup_file.content[
                                    LastOf(RowsOfKey(lookup_file.content, RowKey(row)))].tag)
        /\ \A k \in DictKeys(lookup_dict) : RowsOfKey(lookup_file.content, k) # {}

(***************************************************************************)
(* C6: when several rows give the same key, the loaded table maps the key  *)
(* to the lowercase tag of the last of them and holds one entry for the    *)
(* key, also when the rows spell the protocol name differently.            *)
(***************************************************************************)
C6_LastRowOfAKeyWins ==
    Has("load_lookup_table") =>
        /\ NoDuplicateKeys(lookup_dict)
        /\ DictKeys(lookup_dict) =
              {RowKey(lookup_file.content[i]) :
                  i \in {j \in 1..Len(lookup_file.content) : Resolves(lookup_file.content[j])}}
        /\ \A k \in DictKeys(lookup_dict) :
              DictGet(lookup_dict, k) =
                  lower(lookup_file.content[LastOf(RowsOfKey(lookup_file.content, k))].tag)

\* two rows, spelled tcp and TCP, with different tags: one entry, the later tag
C6_Witness ==
    /\ Has("load_lookup_table")
    /\ Len(lookup_file.content) = 2
    /\ lookup_file.content[1].protocol = s_tcp
    /\ lookup_file.content[2].protocol = s_TCP
    /\ lookup_file.content[1].dstport = lookup_file.content[2].dstport
    /\ lower(lookup_file.content[1].tag) # lower(lookup_file.content[2].tag)
    /\ lookup_dict = <<<<<<s_80, <<"6">>>>, s_ssh>>>>

(***************************************************************************)
(* C4: when both sources can be read, malformed rows and lines never abort *)
(* the run: it goes through both aggregations to writing the output.       *)
(***************************************************************************)
C4_MalformationsNeverAbort ==
    (pc = "exit" /\ lookup_file.readable /\ flow_file.readable) =>
        /\ Has("map_port_proto_tag")
        /\ Has("get_port_protocol_counts")
        /\ (out_ok => output # NotWritten)

(***************************************************************************)
(* C9: the calls run in the order load lookup table, load flow log,        *)
(* map_port_proto_tag, get_port_protocol_counts, write output; a failure   *)
(* ends the run with a report and no later call runs; the output is        *)
(* written only after the four earlier calls returned; the run always      *)
(* ends.                                                                   *)
(***************************************************************************)
StageOrder ==
    <<"load_lookup_table", "load_dstport_protocol_flow_logs", "map_port_proto_tag",
      "get_port_protocol_counts", "write_output_file">>

C9_StagesInOrderFailureEndsRun ==
    /\ [](done = SubSeq(StageOrder, 1, Len(done)))
    /\ [](reported # "none" => pc = "exit")
    /\ [][pc # "exit" /\ reported = "none"]_vars
    /\ [](output # NotWritten => done = StageOrder)
    /\ [](pc = "exit" => (reported = "none" <=> done = StageOrder))
    /\ <>(pc = "exit")

\* get_port_protocol_counts failed: reported, nothing written, the run over
C9_Witness ==
    /\ pc = "exit"
    /\ reported = "Value error"
    /\ Len(done) = 3
    /\ out_ok
    /\ output = NotWritten

=============================================================================
